---- MODULE Spec2Model ----
(***************************************************************************)
(* Model of aipair/crud.py (CRUD functions over the COURSES table of a     *)
(* SQLite database) and of aipair/account.py (class Account).              *)
(*                                                                         *)
(* Python values are records [ty, s, n, big, half]:                        *)
(*   ty   the Python type name ("NoneType", "str", "int", "float");        *)
(*   s    the text of a str ("nan" marks the float NaN);                   *)
(*   n, big, half  the number  n + (IF big THEN 2^53 ELSE 0)               *)
(*                             + (IF half THEN 1/2 ELSE 0).                *)
(* 2^53 is where a C double stops representing every integer, so float()   *)
(* of an int is the identity below it and rounds to even above it.         *)
(***************************************************************************)
EXTENDS Integers, Sequences, FiniteSets, TLC

VARIABLES table, sqlite_sequence, openConns, issued, deleted, last,
          balance, acct

vars == <<table, sqlite_sequence, openConns, issued, deleted, last, balance, acct>>

crudVars == <<table, sqlite_sequence, openConns, issued, deleted, last>>

acctVars == <<balance, acct>>

---------------------------------------------------------------------------
(* Bounds of the model *)

\* Courses created in a behaviour of Spec and of SpecValues
MaxCreates == 3

MaxValueCreates == 2

\* Connections left open at once
MaxOpen == 1

\* Largest balance of the account
MaxBalance == 12

---------------------------------------------------------------------------
(* Python values *)

PyNone == [ty |-> "NoneType", s |-> "", n |-> 0, big |-> FALSE, half |-> FALSE]

PyStr(x) == [ty |-> "str", s |-> x, n |-> 0, big |-> FALSE, half |-> FALSE]

PyInt(k) == [ty |-> "int", s |-> "", n |-> k, big |-> FALSE, half |-> FALSE]

PyBigInt(k) == [ty |-> "int", s |-> "", n |-> k, big |-> TRUE, half |-> FALSE]

PyFloat(k) == [ty |-> "float", s |-> "", n |-> k, big |-> FALSE, half |-> FALSE]

PyFloatHalf(k) == [ty |-> "float", s |-> "", n |-> k, big |-> FALSE, half |-> TRUE]

PyBigFloat(k) == [ty |-> "float", s |-> "", n |-> k, big |-> TRUE, half |-> FALSE]

PyNaN == [ty |-> "float", s |-> "nan", n |-> 0, big |-> FALSE, half |-> FALSE]

IsNaN(v) == v.ty = "float" /\ v.s = "nan"

\* isinstance(v, str), isinstance(v, int), isinstance(v, (int, float))
IsStr(v) == v.ty = "str"

IsInt(v) == v.ty = "int"

IsNumber(v) == v.ty \in {"int", "float"}

\* Python truth value: bool(v)
Truthy(v) ==
    CASE v.ty = "NoneType" -> FALSE
      [] v.ty = "str" -> v.s # ""
      [] OTHER -> IsNaN(v) \/ v.big \/ v.half \/ v.n # 0

\* v < 0 for a number v (every comparison with NaN is False)
LtZero(v) == ~IsNaN(v) /\ ~v.big /\ v.n < 0

\* v < 1 for an int v
LtOne(v) == ~v.big /\ v.n < 1

\* Round k, an offset from 2^53, to the doubles of [2^53, 2^54): the even
\* offsets, a tie going to the even mantissa (offset divisible by 4).
RoundToDouble(k) ==
    IF k % 2 = 0 THEN k
    ELSE IF (k - 1) % 4 = 0 THEN k - 1 ELSE k + 1

\* int(v) where float(v) is meant: the fraction is dropped
ToFloatTruncating(v) ==
    IF IsNaN(v) THEN v
    ELSE [ty |-> "float", s |-> "", n |-> v.n, big |-> v.big, half |-> FALSE]

\* float(v) for a number v
ToFloat(v) ==
    IF v.ty = "float" THEN v
    ELSE IF v.big THEN PyBigFloat(RoundToDouble(v.n))
    ELSE PyFloat(v.n)

Digits == <<"0", "1", "2", "3", "4", "5", "6", "7", "8", "9">>

RECURSIVE Decimal(_)
\* str(k) for an int k >= 0
Decimal(k) ==
    IF k < Len(Digits) THEN Digits[k + 1]
    ELSE Decimal(k \div Len(Digits)) \o Digits[(k % Len(Digits)) + 1]

---------------------------------------------------------------------------
(* SQLite: what a bound parameter becomes in a column of the COURSES table, *)
(* as sqlite3.Row hands it back.  SqlNull is the SQL NULL.                  *)

SqlNull == PyNone

\* title TEXT: an integer is converted to its text form (the titles the
\* model offers are None, str and int below 2^53)
TextAffinity(v) ==
    CASE IsStr(v) -> v
      [] v.ty = "NoneType" -> SqlNull
      [] IsInt(v) /\ ~v.big ->
            IF v.n >= 0 THEN PyStr(Decimal(v.n)) ELSE PyStr("-" \o Decimal(-v.n))

\* fee REAL: a NaN is stored as NULL
RealAffinity(v) == IF IsNaN(v) THEN SqlNull ELSE v

---------------------------------------------------------------------------
(* Inputs offered to the operations.  Spec, which is about the rows of the  *)
(* table, draws from the ...Inputs; SpecValues, which is about the values   *)
(* and their validation, from the ...Values.  None is an optional argument  *)
(* left out.                                                                *)

TitleInputs == {PyNone, PyStr(""), PyStr("Intro"), PyStr("X")}

DurationInputs == {PyNone, PyInt(-1), PyInt(10)}

FeeInputs == {PyNone, PyFloatHalf(199), PyInt(10)}

IdInputs == {PyNone} \cup {PyInt(k) : k \in 0..MaxCreates}

TitleValues == {PyNone, PyStr(""), PyStr("Intro"), PyInt(5)}

DurationValues == {PyNone, PyInt(-1), PyInt(10), PyFloatHalf(1)}

FeeValues == {PyNone, PyInt(-1), PyInt(10), PyFloatHalf(199), PyBigInt(1), PyNaN,
              PyStr("X")}

IdValues == {PyNone} \cup {PyInt(k) : k \in 0..MaxValueCreates}

AmountInputs == {PyNone} \cup {PyInt(k) : k \in -1..3}

---------------------------------------------------------------------------
(* crud.py *)

\* The last call: its operation and course_id, the exception it raised ("" if
\* none), whether it opened a connection, and what it returned.
NoCall == [op |-> "init", id |-> PyNone, exc |-> "", opened |-> FALSE,
           retId |-> 0, retBool |-> FALSE, retRows |-> <<>>]

\* The checks of create_course before it touches the database
CreateValidation(title, duration, fee) ==
    IF ~Truthy(title) \/ ~IsStr(title) THEN "ValueError"
    ELSE IF ~IsInt(duration) \/ LtZero(duration) THEN "ValueError"
    ELSE IF ~IsNumber(fee) \/ LtZero(fee) THEN "ValueError"
    ELSE ""

\* course_id < 0 where course_id < 1 is meant
IdValidationFromZero(course_id) ==
    IF ~IsInt(course_id) \/ LtZero(course_id) THEN "ValueError" ELSE ""

\* The check of course_id in get_course, update_course and delete_course
IdValidation(course_id) ==
    IF ~IsInt(course_id) \/ LtOne(course_id) THEN "ValueError" ELSE ""

\* update_course without its check of fee
UpdateValidationNoFee(course_id, title, duration, fee) ==
    IF IdValidation(course_id) # "" THEN "ValueError"
    ELSE IF title # PyNone /\ ~Truthy(title) THEN "ValueError"
    ELSE IF duration # PyNone /\ (~IsInt(duration) \/ LtZero(duration)) THEN "ValueError"
    ELSE IF title = PyNone /\ duration = PyNone /\ fee = PyNone THEN "ValueError"
    ELSE ""

\* The checks of update_course before it touches the database
UpdateValidation(course_id, title, duration, fee) ==
    IF IdValidation(course_id) # "" THEN "ValueError"
    ELSE IF title # PyNone /\ ~Truthy(title) THEN "ValueError"
    ELSE IF duration # PyNone /\ (~IsInt(duration) \/ LtZero(duration)) THEN "ValueError"
    ELSE IF fee # PyNone /\ (~IsNumber(fee) \/ LtZero(fee)) THEN "ValueError"
    ELSE IF title = PyNone /\ duration = PyNone /\ fee = PyNone THEN "ValueError"
    ELSE ""

\* id INTEGER PRIMARY KEY without AUTOINCREMENT: one more than the largest
\* rowid now in the table
NextRowidOfTable(tbl, seq) ==
    IF tbl = {} THEN 1
    ELSE (CHOOSE m \in {r.id : r \in tbl} : \A r \in tbl : r.id <= m) + 1

\* id INTEGER PRIMARY KEY AUTOINCREMENT: one more than the largest rowid the
\* table has ever held, which sqlite_sequence records
NextRowid(tbl, seq) == seq + 1

\* The row INSERT INTO COURSES (title, duration, fee) VALUES (?, ?, ?) builds
\* from the parameters (title, duration, float(fee))
InsertedRow(rowid, title, duration, fee) ==
    [id |-> rowid, title |-> TextAffinity(title), duration |-> duration,
     fee |-> RealAffinity(ToFloat(fee))]

\* title, duration and fee are NOT NULL
NotNullViolated(row) ==
    row.title = SqlNull \/ row.duration = SqlNull \/ row.fee = SqlNull

\* id is the PRIMARY KEY
PrimaryKeyViolated(tbl, row) == \E r \in tbl : r.id = row.id

\* WHERE id = ?
RowsWithId(tbl, course_id) == {r \in tbl : ~course_id.big /\ r.id = course_id.n}

\* UPDATE COURSES SET <the fields supplied> on one row, the parameters being
\* title, duration and float(fee)
UpdatedRow(r, title, duration, fee) ==
    [id |-> r.id,
     title |-> IF title # PyNone THEN TextAffinity(title) ELSE r.title,
     duration |-> IF duration # PyNone THEN duration ELSE r.duration,
     fee |-> IF fee # PyNone THEN RealAffinity(ToFloat(fee)) ELSE r.fee]

\* DELETE FROM COURSES WHERE id = ?
DeleteRows(tbl, course_id) == tbl \ RowsWithId(tbl, course_id)

\* cur.rowcount >= 0
RowcountNotNegative(rows) == Cardinality(rows) >= 0

\* cur.rowcount > 0
RowcountPositive(rows) == Cardinality(rows) > 0

RECURSIVE OrderByIdDesc(_)
\* ORDER BY id DESC
OrderByIdDesc(tbl) ==
    IF tbl = {} THEN <<>>
    ELSE LET r == CHOOSE x \in tbl : \A y \in tbl : x.id >= y.id
         IN <<r>> \o OrderByIdDesc(tbl \ {r})

RECURSIVE OrderById(_)
\* ORDER BY id
OrderById(tbl) ==
    IF tbl = {} THEN <<>>
    ELSE LET r == CHOOSE x \in tbl : \A y \in tbl : x.id <= y.id
         IN <<r>> \o OrderById(tbl \ {r})

\* What get_course returns from a table: <<>> stands for None, <<row>> for
\* dict(row)
GetResult(tbl, course_id) == OrderById(RowsWithId(tbl, course_id))

\* _get_connection opens a connection that no path closes: `with conn` ends
\* the transaction only.  Whether the connection is still open once the call
\* is over is up to the interpreter's finalisation of the unreachable object.
ConnectionAfterCall(opened) ==
    IF ~opened THEN openConns' = openConns
    ELSE \E finalized \in BOOLEAN :
            /\ ~finalized => openConns < MaxOpen
            /\ openConns' = IF finalized THEN openConns ELSE openConns + 1

create_course(title, duration, fee) ==
    LET call == [NoCall EXCEPT !.op = "create"]
        row == InsertedRow(NextRowid(table, sqlite_sequence), title, duration, fee)
    IN  IF CreateValidation(title, duration, fee) # ""
        THEN /\ last' = [call EXCEPT !.exc = "ValueError"]
             /\ ConnectionAfterCall(FALSE)
             /\ UNCHANGED <<table, sqlite_sequence, issued, deleted>>
        ELSE IF NotNullViolated(row) \/ PrimaryKeyViolated(table, row)
        THEN /\ last' = [call EXCEPT !.exc = "RuntimeError", !.opened = TRUE]
             /\ ConnectionAfterCall(TRUE)
             /\ UNCHANGED <<table, sqlite_sequence, issued, deleted>>
        ELSE /\ table' = table \cup {row}
             /\ sqlite_sequence' = row.id
             /\ issued' = Append(issued, row.id)
             /\ last' = [call EXCEPT !.opened = TRUE, !.retId = row.id]
             /\ ConnectionAfterCall(TRUE)
             /\ UNCHANGED deleted

get_course(course_id) ==
    LET call == [NoCall EXCEPT !.op = "get", !.id = course_id]
    IN  /\ IF IdValidation(course_id) # ""
           THEN /\ last' = [call EXCEPT !.exc = "ValueError"]
                /\ ConnectionAfterCall(FALSE)
           ELSE /\ last' = [call EXCEPT !.opened = TRUE,
                                        !.retRows = GetResult(table, course_id)]
                /\ ConnectionAfterCall(TRUE)
        /\ UNCHANGED <<table, sqlite_sequence, issued, deleted>>

update_course(course_id, title, duration, fee) ==
    LET call == [NoCall EXCEPT !.op = "update", !.id = course_id]
        matched == RowsWithId(table, course_id)
        updated == {UpdatedRow(r, title, duration, fee) : r \in matched}
    IN  /\ IF UpdateValidation(course_id, title, duration, fee) # ""
           THEN /\ last' = [call EXCEPT !.exc = "ValueError"]
                /\ ConnectionAfterCall(FALSE)
                /\ table' = table
           ELSE IF \E r \in updated : NotNullViolated(r)
           THEN /\ last' = [call EXCEPT !.exc = "RuntimeError", !.opened = TRUE]
                /\ ConnectionAfterCall(TRUE)
                /\ table' = table
           ELSE /\ table' = (table \ matched) \cup updated
                /\ last' = [call EXCEPT !.opened = TRUE,
                                        !.retBool = RowcountPositive(matched)]
                /\ ConnectionAfterCall(TRUE)
        /\ UNCHANGED <<sqlite_sequence, issued, deleted>>

delete_course(course_id) ==
    LET call == [NoCall EXCEPT !.op = "delete", !.id = course_id]
        matched == RowsWithId(table, course_id)
    IN  /\ IF IdValidation(course_id) # ""
           THEN /\ last' = [call EXCEPT !.exc = "ValueError"]
                /\ ConnectionAfterCall(FALSE)
                /\ UNCHANGED <<table, deleted>>
           ELSE /\ table' = DeleteRows(table, course_id)
                /\ last' = [call EXCEPT !.opened = TRUE,
                                        !.retBool = RowcountPositive(matched)]
                /\ deleted' = IF RowcountPositive(matched)
                              THEN deleted \cup {course_id.n} ELSE deleted
                /\ ConnectionAfterCall(TRUE)
        /\ UNCHANGED <<sqlite_sequence, issued>>

list_courses ==
    /\ last' = [NoCall EXCEPT !.op = "list", !.opened = TRUE,
                              !.retRows = OrderById(table)]
    /\ ConnectionAfterCall(TRUE)
    /\ UNCHANGED <<table, sqlite_sequence, issued, deleted>>

Create ==
    \E t \in TitleInputs, d \in DurationInputs, f \in FeeInputs :
        /\ create_course(t, d, f)
        /\ Len(issued') <= MaxCreates
        /\ UNCHANGED acctVars

Get == \E i \in IdInputs : get_course(i) /\ UNCHANGED acctVars

Update ==
    \E i \in IdInputs, t \in TitleInputs, d \in DurationInputs, f \in FeeInputs :
        update_course(i, t, d, f) /\ UNCHANGED acctVars

Delete == \E i \in IdInputs : delete_course(i) /\ UNCHANGED acctVars

List == list_courses /\ UNCHANGED acctVars

CreateValues ==
    \E t \in TitleValues, d \in DurationValues, f \in FeeValues :
        /\ create_course(t, d, f)
        /\ Len(issued') <= MaxValueCreates
        /\ UNCHANGED acctVars

GetValues == \E i \in IdValues : get_course(i) /\ UNCHANGED acctVars

UpdateValues ==
    \E i \in IdValues, t \in TitleValues, d \in DurationValues, f \in FeeValues :
        update_course(i, t, d, f) /\ UNCHANGED acctVars

DeleteValues == \E i \in IdValues : delete_course(i) /\ UNCHANGED acctVars

---------------------------------------------------------------------------
(* account.py *)

NoAcctCall == [op |-> "init", amount |-> PyNone, exc |-> "", ret |-> FALSE]

\* Account.deposit
deposit(amount) ==
    LET call == [NoAcctCall EXCEPT !.op = "deposit", !.amount = amount]
    IN  IF ~IsNumber(amount) \/ amount.n <= 0
        THEN /\ acct' = [call EXCEPT !.exc = "ValueError"]
             /\ balance' = balance
        ELSE /\ balance + amount.n <= MaxBalance
             /\ balance' = balance + amount.n
             /\ acct' = [call EXCEPT !.ret = TRUE]

\* 0 < amount, the balance not looked at
CanWithdrawAnything(amount, bal) == 0 < amount.n

\* 0 < amount <= self.balance
CanWithdraw(amount, bal) == 0 < amount.n /\ amount.n <= bal

\* Account.withdraw: comparing 0 with a value that is no number raises TypeError
withdraw(amount) ==
    LET call == [NoAcctCall EXCEPT !.op = "withdraw", !.amount = amount]
    IN  IF ~IsNumber(amount)
        THEN /\ acct' = [call EXCEPT !.exc = "TypeError"]
             /\ balance' = balance
        ELSE IF CanWithdraw(amount, balance)
        THEN /\ balance' = balance - amount.n
             /\ acct' = [call EXCEPT !.ret = TRUE]
        ELSE /\ balance' = balance
             /\ acct' = [call EXCEPT !.ret = FALSE]

Deposit == \E a \in AmountInputs : deposit(a) /\ UNCHANGED crudVars

Withdraw == \E a \in AmountInputs : withdraw(a) /\ UNCHANGED crudVars

---------------------------------------------------------------------------
(* Specifications *)

InitCrud ==
    /\ table = {}
    /\ sqlite_sequence = 0
    /\ openConns = 0
    /\ issued = <<>>
    /\ deleted = {}
    /\ last = NoCall

Init == InitCrud /\ balance = 0 /\ acct = NoAcctCall

Next == Create \/ Get \/ Update \/ Delete \/ List

Spec == Init /\ [][Next]_vars

NextValues == CreateValues \/ GetValues \/ UpdateValues \/ DeleteValues \/ List

SpecValues == Init /\ [][NextValues]_vars

\* Account(acno, customer, balance) with a balance that is not negative
InitAccount == InitCrud /\ balance \in 0..MaxBalance /\ acct = NoAcctCall

NextAccount == Deposit \/ Withdraw

SpecAccount == InitAccount /\ [][NextAccount]_vars

---------------------------------------------------------------------------
(* The claims *)

Ids(seq) == {seq[k] : k \in 1..Len(seq)}

\* Python == between two values (numbers compare by exact value across int
\* and float, NaN equals nothing, a str equals only the same str).
PyEq(a, b) ==
    CASE IsNumber(a) /\ IsNumber(b) ->
            /\ ~IsNaN(a) /\ ~IsNaN(b)
            /\ a.n = b.n /\ a.big = b.big /\ a.half = b.half
      [] IsStr(a) /\ IsStr(b) -> a.s = b.s
      [] OTHER -> a.ty = "NoneType" /\ b.ty = "NoneType"

\* v >= 0 for a number v
GeZero(v) == ~IsNaN(v) /\ (v.big \/ v.n >= 0)

\* A valid input of create: non-empty text title, integer duration >= 0,
\* numeric fee >= 0
ValidCreateInput(t, d, f) ==
    /\ IsStr(t) /\ t.s # ""
    /\ IsInt(d) /\ GeZero(d)
    /\ IsNumber(f) /\ GeZero(f)

\* A fee that a double holds exactly: a float, or an int up to 2^53 or even
\* above it
ExactAsDouble(f) == f.ty = "float" \/ ~f.big \/ f.n % 2 = 0

\* The step was a create whose get, issued next, returns the values supplied
CreateRoundTrip(t, d, f) ==
    /\ last'.exc = ""
    /\ last'.retId \notin Ids(issued)
    /\ LET got == GetResult(table', PyInt(last'.retId))
       IN  /\ Len(got) = 1
           /\ got[1].id = last'.retId
           /\ PyEq(got[1].title, t)
           /\ PyEq(got[1].duration, d)
           /\ PyEq(got[1].fee, f)

\* C1 as stated: for every valid input (non-empty text title, integer
\* duration >= 0, numeric fee >= 0) create returns an id no earlier create
\* returned, and get(id) right after returns the id and exactly the title,
\* duration and fee supplied.
C1_CreateGetRoundTrip ==
    [][last'.op = "create" =>
          \A t \in TitleValues, d \in DurationValues, f \in FeeValues :
              (ValidCreateInput(t, d, f) /\ create_course(t, d, f))
                  => CreateRoundTrip(t, d, f)]_vars

\* C1 amended: the same for every valid input whose fee is a float or an
\* integer that a double represents exactly.
C1_CreateGetRoundTripExactFee ==
    [][last'.op = "create" =>
          \A t \in TitleValues, d \in DurationValues, f \in FeeValues :
              (ValidCreateInput(t, d, f) /\ ExactAsDouble(f) /\ create_course(t, d, f))
                  => CreateRoundTrip(t, d, f)]_vars

\* A second create returned, its integer fee stored as the equal float
C1_Witness ==
    /\ last.op = "create" /\ last.exc = ""
    /\ Len(issued) > 1
    /\ \E r \in table : r.id = last.retId /\ r.fee = PyFloat(10)

\* C2: ids are assigned in strictly increasing order, so no create returns an
\* id that an earlier create returned, whatever was updated or deleted in
\* between (the course with the highest id included).
C2_IdsStrictlyIncreasing ==
    \A j, k \in 1..Len(issued) : j < k => issued[j] < issued[k]

\* A create returned after the course with the highest id had been deleted
C2_Witness ==
    /\ last.op = "create" /\ last.exc = ""
    /\ Len(issued) > 1
    /\ last.retId - 1 \in deleted

\* C3: a mutating call (create, update, delete) leaves no connection it
\* opened open, however it ends: the number of open connections does not
\* grow over the call.
C3_ConnectionReleased ==
    [][last'.op \in {"create", "update", "delete"} => openConns' <= openConns]_vars

\* C4: with a valid id, update fails with ValidationError for a supplied
\* title, duration or fee exactly when create fails with ValidationError
\* because of that value in that field.
C4_UpdateValidatesLikeCreate ==
    [][\A i \in IdValues :
          IdValidation(i) = "" =>
            /\ \A v \in TitleValues \ {PyNone} :
                  update_course(i, v, PyNone, PyNone) =>
                      (last'.exc = "ValueError"
                          <=> CreateValidation(v, PyInt(10), PyFloatHalf(199)) # "")
            /\ \A v \in DurationValues \ {PyNone} :
                  update_course(i, PyNone, v, PyNone) =>
                      (last'.exc = "ValueError"
                          <=> CreateValidation(PyStr("Intro"), v, PyFloatHalf(199)) # "")
            /\ \A v \in FeeValues \ {PyNone} :
                  update_course(i, PyNone, PyNone, v) =>
                      (last'.exc = "ValueError"
                          <=> CreateValidation(PyStr("Intro"), PyInt(10), v) # "")]_vars

\* An id that is an integer below 1
NonPositiveId(i) == IsInt(i) /\ ~i.big /\ i.n <= 0

\* create with an empty title, a negative duration or a negative fee
MalformedCreate(t, d, f) ==
    \/ t = PyStr("")
    \/ IsNumber(d) /\ ~GeZero(d) /\ ~IsNaN(d)
    \/ IsNumber(f) /\ ~GeZero(f) /\ ~IsNaN(f)

\* The step raised ValidationError, opened no connection and left the store
\* as it was.  C5 below says so of every step that a malformed call can take.
RejectedBeforeStorage ==
    /\ last'.exc = "ValueError"
    /\ ~last'.opened
    /\ openConns' = openConns
    /\ table' = table
    /\ sqlite_sequence' = sqlite_sequence

\* C5: a call with malformed input (create with an empty title, a negative
\* duration or a negative fee; get, update or delete with a non-positive id;
\* update with no field, whatever the id) fails with ValidationError before
\* any storage access: no connection is opened, the store is unchanged.
C5_MalformedRejectedBeforeStorage ==
    [][\/ RejectedBeforeStorage
       \/ /\ last'.op = "create" =>
                \A t \in TitleValues, d \in DurationValues, f \in FeeValues :
                    ~(MalformedCreate(t, d, f) /\ create_course(t, d, f))
          /\ last'.op \in {"get", "delete"} =>
                \A i \in IdValues :
                    ~(NonPositiveId(i) /\ last'.id = i
                        /\ (get_course(i) \/ delete_course(i)))
          /\ last'.op = "update" =>
                \A i \in IdValues :
                    /\ (NonPositiveId(i) /\ last'.id = i) =>
                          \A t \in TitleValues, d \in DurationValues, f \in FeeValues :
                              ~update_course(i, t, d, f)
                    /\ ~update_course(i, PyNone, PyNone, PyNone)]_vars

\* delete(0) was rejected on a store that holds courses
C5_Witness ==
    /\ last.op = "delete" /\ last.id = PyInt(0)
    /\ last.exc = "ValueError" /\ ~last.opened
    /\ table # {}

\* C6, for a title supplied alone (the other subsets of the fields are alike):
\* a successful update(id, title=X) changes only the title of only the course
\* with that id: get(id) then returns the title X, duration, fee and id as
\* before, and every other course is unchanged.
C6_UpdateChangesOnlySupplied ==
    [][last'.op = "update" =>
          \A i \in IdValues, t \in TitleValues \ {PyNone} :
              (update_course(i, t, PyNone, PyNone) /\ last'.exc = "" /\ last'.retBool) =>
                  LET old == GetResult(table, i)
                      got == GetResult(table', i)
                  IN  /\ Len(old) = 1 /\ Len(got) = 1
                      /\ got[1].id = old[1].id
                      /\ PyEq(got[1].title, t)
                      /\ got[1].duration = old[1].duration
                      /\ got[1].fee = old[1].fee
                      /\ table' \ {got[1]} = table \ {old[1]}]_vars

\* C7: delete(id) returns true exactly once per existing id: on a store that
\* holds the course it returns true and removes that course and no other;
\* once it has returned true for an id, a later delete(id) returns false,
\* raises nothing and leaves the store unchanged.
C7_DeleteTrueOnce ==
    [][last'.op = "delete" => \A i \in IdInputs :
          (IdValidation(i) = "" /\ delete_course(i)) =>
              /\ last'.exc = ""
              /\ (\E r \in table : r.id = i.n) =>
                    /\ last'.retBool
                    /\ \E r \in table : r.id = i.n /\ table' = table \ {r}
                    /\ i.n \notin deleted
              /\ i.n \in deleted => (~last'.retBool /\ table' = table)]_vars

\* A second delete of an id returned false while other courses are stored
C7_Witness ==
    /\ last.op = "delete" /\ last.exc = "" /\ ~last.retBool
    /\ last.id.n \in deleted
    /\ table # {}

\* C8: list() returns exactly the courses created and not yet deleted, each
\* once, as they are stored, in strictly ascending id order.
C8_ListAscendingLive ==
    last.op = "list" =>
        LET rows == last.retRows
        IN  /\ \A j, k \in 1..Len(rows) : j < k => rows[j].id < rows[k].id
            /\ {rows[k].id : k \in 1..Len(rows)} = Ids(issued) \ deleted
            /\ \A k \in 1..Len(rows) : rows[k] \in table

\* Ids 1, 2, 3 created, 2 deleted: list() returned the courses 1 and 3
C8_Witness ==
    /\ last.op = "list"
    /\ Ids(issued) = {1, 2, 3} /\ deleted = {2}
    /\ Len(last.retRows) = 2
    /\ last.retRows[1].id = 1 /\ last.retRows[2].id = 3

\* C9: every stored course has a non-empty title, a duration that is not
\* negative and a fee that is not negative.
C9_StoredCoursesValid ==
    \A r \in table :
        /\ r.title # SqlNull /\ r.title # PyStr("")
        /\ IsNumber(r.duration) /\ GeZero(r.duration)
        /\ IsNumber(r.fee) /\ GeZero(r.fee)

\* A course is stored and the last call, an update, failed in the database
C9_Witness ==
    /\ last.op = "update" /\ last.exc = "RuntimeError"
    /\ \E r \in table : r.title = PyStr("5")

\* What deposit does, as C10 states it
DepositAsClaimed(a) ==
    IF IsNumber(a) /\ a.n > 0
    THEN balance' = balance + a.n /\ acct'.ret /\ acct'.exc = ""
    ELSE IsNumber(a) => (acct'.exc # "" /\ balance' = balance)

\* C10 as stated: the balance is never negative; deposit(amount > 0) adds
\* amount and returns True, deposit(amount <= 0) raises and changes nothing;
\* withdraw(0 < amount <= balance) subtracts amount and returns True, any
\* other withdraw returns False and changes nothing.
C10_AccountOperations ==
    [][/\ balance' >= 0
       /\ \A a \in AmountInputs :
            /\ deposit(a) => DepositAsClaimed(a)
            /\ withdraw(a) =>
                  IF IsNumber(a) /\ 0 < a.n /\ a.n <= balance
                  THEN balance' = balance - a.n /\ acct'.ret /\ acct'.exc = ""
                  ELSE ~acct'.ret /\ acct'.exc = "" /\ balance' = balance]_vars

\* C10 amended: as stated, "any other withdraw" being any other withdraw of a
\* number; a withdraw of a value that is no number raises TypeError and
\* changes nothing.
C10_AccountOperationsNumeric ==
    [][/\ balance' >= 0
       /\ \A a \in AmountInputs :
            /\ deposit(a) => DepositAsClaimed(a)
            /\ withdraw(a) =>
                  IF IsNumber(a) /\ 0 < a.n /\ a.n <= balance
                  THEN balance' = balance - a.n /\ acct'.ret /\ acct'.exc = ""
                  ELSE IF IsNumber(a)
                  THEN ~acct'.ret /\ acct'.exc = "" /\ balance' = balance
                  ELSE acct'.exc = "TypeError" /\ balance' = balance]_vars

\* The whole balance was withdrawn
C10_Witness ==
    /\ acct.op = "withdraw" /\ acct.ret
    /\ acct.amount.n > 1
    /\ balance = 0

====
